---- MODULE Spec2Model ----
(***************************************************************************)
(* A model of winmtp's object tree navigation: an MTP device's content     *)
(* tree (the native WPD calls answer from it), the Object snapshot, the    *)
(* child iterator and Object::object_by_path, together with the mutating   *)
(* operations that build and change the tree.                              *)
(***************************************************************************)
EXTENDS Integers, Sequences, FiniteSets, TLC

VARIABLES
    tree,               \* the device's content: object id -> [parent, name, ty]
    case_sensitive_fs,  \* the flag given to BasicDevice::open, kept by Content
    pc,                 \* "idle": the caller may call; "done": a call returned;
                        \* "aborted": the program panicked
    ret,                \* the last call: its arguments, result and native calls
    prev,               \* the call before it, and whether the device changed since
    data,               \* the device's resource data: object id -> [size, bytes]
    stream,             \* the stream adapter the caller holds, if any
    attached            \* the portable devices plugged in: device id -> friendly name

vars == <<tree, case_sensitive_fs, pc, ret, prev, data, stream, attached>>

-----------------------------------------------------------------------------
(* Bounds *)

\* object ids other than the root that the device hands out
MaxObjs == 3
\* every path string up to this length is tried
MaxPathLen == 2
\* segments (names and "..") of the longer paths that are built from segments
MaxSegs == 4
\* segments of the built paths that get "." segments, separator runs or a
\* leading root or drive
MaxVarSegs == 2
\* how many separators in a row, and at the end, a built path may have
MaxSeps == 2
\* the latest native round trip of a call that the device may fail
MaxFail == 3
\* objects other than the root on the device while a caller holds an
\* Object across calls
MaxHeldObjs == 2
\* bytes of a local file
MaxBytes == 3
\* bytes that std::io::copy moves at a time, and the most that the device
\* takes or gives in one transfer call
CopyBufLen == 2
MaxChunk == 2
\* objects other than the root on the device while files are transferred
MaxFiles == 1
\* devices that can be plugged in at the same time
MaxDevs == 3

-----------------------------------------------------------------------------
(* Characters, names, paths *)

NUL == "NUL"
Letters == {"a", "A"}
Separators == {"\\", "/"}
Alphabet == Letters \cup Separators \cup {".", ":", NUL}

\* the names objects carry on the device
Names == {<<"a">>, <<"A">>}

\* every string over the alphabet, up to a length
Strs(n) == UNION {[1..k -> Alphabet] : k \in 0..n}
ShortPaths == Strs(MaxPathLen)

\* longer paths, built from segments: names and ".."
Segs == Names \cup {<<".", ".">>}
Chains(S, n) == UNION {[1..k -> S] : k \in 1..n}

RECURSIVE Repeat(_, _)
Repeat(c, n) == IF n = 0 THEN <<>> ELSE <<c>> \o Repeat(c, n - 1)

\* the segments joined by m separators sep, with t of them at the end
RECURSIVE JoinSegs(_, _, _, _)
JoinSegs(chain, sep, m, t) ==
    IF chain = <<>> THEN <<>>
    ELSE IF Len(chain) = 1 THEN chain[1] \o Repeat(sep, t)
    ELSE chain[1] \o Repeat(sep, m) \o JoinSegs(Tail(chain), sep, m, t)

Join(chain) == JoinSegs(chain, "\\", 1, 0)

\* the chain with a "." segment put before segment i wherever mask[i], and
\* at the end if mask[Len(chain) + 1]
WithDots(chain, mask) ==
    LET RECURSIVE From(_)
        From(i) ==
            (IF mask[i] THEN <<<<".">>>> ELSE <<>>)
            \o (IF i > Len(chain) THEN <<>> ELSE <<chain[i]>> \o From(i + 1))
    IN  From(1)

Leads == {<<"\\">>, <<"/">>, <<"a", ":">>, <<"a", ":", "\\">>, <<"\\", "\\">>}

WalkPaths == {Join(c) : c \in Chains(Segs, MaxSegs)}
DotPaths ==
    UNION {{Join(WithDots(c, mask)) : mask \in [1..(Len(c) + 1) -> BOOLEAN]}
           : c \in Chains(Names, MaxVarSegs)}
SepPaths ==
    {JoinSegs(c, sep, m, t) :
        c \in Chains(Segs, MaxVarSegs), sep \in Separators, m \in 1..MaxSeps, t \in 0..MaxSeps}
LeadPaths == {l \o Join(c) : l \in Leads, c \in Chains(Segs, MaxVarSegs)}

Paths == ShortPaths \cup WalkPaths \cup DotPaths \cup SepPaths \cup LeadPaths

ROOT == 0      \* WPD_DEVICE_OBJECT_ID
NoId == -1     \* the empty id the device reports as the parent of the root
RootName == <<"r">>

-----------------------------------------------------------------------------
(* std::path::Path::components on Windows, as object_by_path calls it *)

IsSep(c) == c \in Separators

\* the length of the run of non-separator characters that starts at s[i]
RECURSIVE RunLen(_, _)
RunLen(s, i) ==
    IF i > Len(s) \/ IsSep(s[i]) THEN 0 ELSE 1 + RunLen(s, i + 1)

\* the prefix a path starts with: "none", "Disk" (C:), "DeviceNS" (\\.\x)
\* or "UNC" (\\server\share); both separators count
PrefixKind(p) ==
    IF Len(p) >= 2 /\ IsSep(p[1]) /\ IsSep(p[2])
    THEN IF Len(p) >= 4 /\ p[3] = "." /\ IsSep(p[4]) THEN "DeviceNS" ELSE "UNC"
    ELSE IF Len(p) >= 2 /\ p[1] \in Letters /\ p[2] = ":" THEN "Disk"
    ELSE "none"

PrefixLen(p) ==
    CASE PrefixKind(p) = "none" -> 0
      [] PrefixKind(p) = "Disk" -> 2
      [] PrefixKind(p) = "DeviceNS" -> 4 + RunLen(p, 5)
      [] PrefixKind(p) = "UNC" ->
            LET server == RunLen(p, 3)
                share == RunLen(p, 3 + server + 1)
            IN  2 + server + (IF share > 0 THEN 1 + share ELSE 0)

Normal(name) == [kind |-> "Normal", name |-> name]
CurDir == [kind |-> "CurDir", name |-> <<>>]
ParentDir == [kind |-> "ParentDir", name |-> <<>>]
RootDir == [kind |-> "RootDir", name |-> <<>>]
Prefix == [kind |-> "Prefix", name |-> <<>>]

\* one piece between separators: empty pieces and "." are dropped
parse_single_component(comp) ==
    IF comp = <<>> \/ comp = <<".">> THEN <<>>
    ELSE IF comp = <<".", ".">> THEN <<ParentDir>>
    ELSE <<Normal(comp)>>

\* the components of the body of a path
RECURSIVE Body(_)
Body(s) ==
    IF s = <<>> THEN <<>>
    ELSE LET k == RunLen(s, 1)
         IN  parse_single_component(SubSeq(s, 1, k)) \o Body(SubSeq(s, k + 2, Len(s)))

Components(p) ==
    LET kind == PrefixKind(p)
        rest == SubSeq(p, PrefixLen(p) + 1, Len(p))
        has_physical_root == rest # <<>> /\ IsSep(rest[1])
        has_implicit_root == kind \in {"DeviceNS", "UNC"}
        include_cur_dir ==
            /\ kind = "none" /\ ~has_physical_root
            /\ rest # <<>> /\ rest[1] = "."
            /\ (Len(rest) = 1 \/ IsSep(rest[2]))
        front ==
            (IF kind = "none" THEN <<>> ELSE <<Prefix>>)
            \o (IF has_physical_root \/ has_implicit_root THEN <<RootDir>>
                ELSE IF include_cur_dir THEN <<CurDir>> ELSE <<>>)
        after ==
            IF has_physical_root \/ include_cur_dir
            THEN SubSeq(rest, 2, Len(rest)) ELSE rest
    IN  front \o Body(after)

\* U16CString::from_os_str_truncate: the text up to the first NUL
RECURSIVE from_os_str_truncate(_)
from_os_str_truncate(s) ==
    IF s = <<>> \/ Head(s) = NUL THEN <<>>
    ELSE <<Head(s)>> \o from_os_str_truncate(Tail(s))

\* str::to_lowercase
to_lowercase(s) == [i \in 1..Len(s) |-> IF s[i] = "A" THEN "a" ELSE s[i]]

\* utils::are_path_eq: compare a name and a path piece, with or without case folding
are_path_eq(left, right, case_sensitive) ==
    IF case_sensitive THEN left = from_os_str_truncate(right)
    ELSE to_lowercase(left) = to_lowercase(right)

-----------------------------------------------------------------------------
(* The device: what the native WPD calls answer *)

Types == {"Folder"}

\* the ids of the children of an object, in the device's enumeration order
RECURSIVE ChildIdsFrom(_, _, _)
ChildIdsFrom(t, id, i) ==
    IF i > MaxObjs THEN <<>>
    ELSE (IF i \in DOMAIN t /\ t[i].parent = id THEN <<i>> ELSE <<>>)
         \o ChildIdsFrom(t, id, i + 1)

ChildIds(t, id) == ChildIdsFrom(t, id, 1)

\* an object and everything below it
RECURSIVE Subtree(_, _)
Subtree(t, id) ==
    {id} \cup UNION {Subtree(t, c) : c \in {x \in DOMAIN t : t[x].parent = id}}

\* the id the device gives to the next object it creates
FreshId(t) == CHOOSE i \in 1..MaxObjs : i \notin DOMAIN t /\ \A j \in 1..(i - 1) : j \in DOMAIN t

\* the tree after the device created an object
Created(t, parentId, name, ty) ==
    [i \in DOMAIN t \cup {FreshId(t)} |->
        IF i \in DOMAIN t THEN t[i] ELSE [parent |-> parentId, name |-> name, ty |-> ty]]

\* the tree after the device deleted an object and what is below it
Deleted(t, id) == [i \in DOMAIN t \ Subtree(t, id) |-> t[i]]

-----------------------------------------------------------------------------
(* Results.  tr is the sequence of native round trips made so far; the     *)
(* device fails the round trip number f (f = 0: it fails none).            *)

Ok(obj, tr) == [kind |-> "Ok", obj |-> obj, err |-> "", tr |-> tr]
Err(e, tr) == [kind |-> "Err", obj |-> [id |-> NoId, name |-> <<>>, ty |-> ""], err |-> e, tr |-> tr]

\* the native calls of a kind among the round trips of a call
Calls(tr, call) == {i \in 1..Len(tr) : tr[i][1] = call}

\* Object::new: the snapshot an Object holds
Object(id, name, ty) == [id |-> id, name |-> name, ty |-> ty]

\* Content::object_by_id: one property fetch for the name and the type
object_by_id(t, id, tr, f) ==
    LET tr1 == Append(tr, <<"GetValues", id>>)
    IN  IF Len(tr1) = f \/ id \notin DOMAIN t THEN Err("Windows", tr1)
        ELSE Ok(Object(id, t[id].name, t[id].ty), tr1)

\* a parent lookup that reads the object's own id instead of its parent's
parent_id_self(t, self, tr, f) ==
    LET tr1 == Append(tr, <<"GetValues", self.id>>)
    IN  IF Len(tr1) = f \/ self.id \notin DOMAIN t
        THEN [ok |-> FALSE, id |-> NoId, tr |-> tr1]
        ELSE [ok |-> TRUE, id |-> self.id, tr |-> tr1]

\* Object::parent_id: one property fetch for WPD_OBJECT_PARENT_ID
parent_id(t, self, tr, f) ==
    LET tr1 == Append(tr, <<"GetValues", self.id>>)
    IN  IF Len(tr1) = f \/ self.id \notin DOMAIN t
        THEN [ok |-> FALSE, id |-> NoId, tr |-> tr1]
        ELSE [ok |-> TRUE, id |-> t[self.id].parent, tr |-> tr1]

\* a children() that hands out the cursor of the call before on the same
\* Object, which that call has run to its end
children_resumed(t, self, tr, f) ==
    LET tr1 == Append(tr, <<"EnumObjects", self.id>>)
    IN  IF Len(tr1) = f \/ self.id \notin DOMAIN t
        THEN [ok |-> FALSE, com_iter |-> <<>>, tr |-> tr1]
        ELSE [ok |-> TRUE,
              com_iter |-> IF prev.call.op = "children" /\ prev.call.self = self
                           THEN <<>> ELSE ChildIds(t, self.id),
              tr |-> tr1]

\* Object::children: EnumObjects hands out a cursor over the child ids
children(t, self, tr, f) ==
    LET tr1 == Append(tr, <<"EnumObjects", self.id>>)
    IN  IF Len(tr1) = f \/ self.id \notin DOMAIN t
        THEN [ok |-> FALSE, com_iter |-> <<>>, tr |-> tr1]
        ELSE [ok |-> TRUE, com_iter |-> ChildIds(t, self.id), tr |-> tr1]

\* a next that resolves the id with two property fetches, one for the name
\* and one for the type
next_two_fetches(t, com_iter, tr, f) ==
    LET tr1 == Append(tr, <<"Next", IF com_iter = <<>> THEN NoId ELSE Head(com_iter)>>)
        none == [some |-> FALSE, obj |-> Object(NoId, <<>>, ""), com_iter |-> com_iter, tr |-> tr1]
        Typed(named) ==
            IF named.kind # "Ok" THEN [none EXCEPT !.com_iter = Tail(com_iter), !.tr = named.tr]
            ELSE LET Both(got) ==
                         IF got.kind = "Ok"
                         THEN [some |-> TRUE, obj |-> got.obj, com_iter |-> Tail(com_iter), tr |-> got.tr]
                         ELSE [none EXCEPT !.com_iter = Tail(com_iter), !.tr = got.tr]
                 IN  Both(object_by_id(t, Head(com_iter), named.tr, f))
    IN  IF Len(tr1) = f THEN none
        ELSE IF com_iter = <<>> THEN none
        ELSE Typed(object_by_id(t, Head(com_iter), tr1, f))

\* ObjectIterator::next: asks the cursor for one id and resolves it; every
\* failure ends as None
next(t, com_iter, tr, f) ==
    LET tr1 == Append(tr, <<"Next", IF com_iter = <<>> THEN NoId ELSE Head(com_iter)>>)
        none == [some |-> FALSE, obj |-> Object(NoId, <<>>, ""), com_iter |-> com_iter, tr |-> tr1]
    IN  IF Len(tr1) = f THEN none
        ELSE IF com_iter = <<>> THEN none
        ELSE LET got == object_by_id(t, Head(com_iter), tr1, f)
             IN  IF got.kind = "Ok"
                 THEN [some |-> TRUE, obj |-> got.obj, com_iter |-> Tail(com_iter), tr |-> got.tr]
                 ELSE [none EXCEPT !.com_iter = Tail(com_iter), !.tr = got.tr]

\* a name test that folds case whatever the session's flag is
name_matches_fold(obj, haystack, cs) == to_lowercase(obj.name) = to_lowercase(haystack)

\* the name test of the scan in object_by_components
name_matches(obj, haystack, cs) == obj.name = haystack

\* a find that runs the cursor to its end and keeps the last child that
\* has the name
RECURSIVE find_last(_, _, _, _, _, _)
find_last(t, com_iter, haystack, cs, tr, f) ==
    LET n == next(t, com_iter, tr, f)
        Keep(rest) ==
            IF rest.some \/ ~name_matches(n.obj, haystack, cs) THEN rest
            ELSE [some |-> TRUE, obj |-> n.obj, tr |-> rest.tr]
    IN  IF ~n.some THEN [some |-> FALSE, obj |-> n.obj, tr |-> n.tr]
        ELSE Keep(find_last(t, n.com_iter, haystack, cs, n.tr, f))

\* Iterator::find over the children: stops at the first match or at None
RECURSIVE find(_, _, _, _, _, _)
find(t, com_iter, haystack, cs, tr, f) ==
    LET n == next(t, com_iter, tr, f)
    IN  IF ~n.some THEN [some |-> FALSE, obj |-> n.obj, tr |-> n.tr]
        ELSE IF name_matches(n.obj, haystack, cs) THEN [some |-> TRUE, obj |-> n.obj, tr |-> n.tr]
        ELSE find(t, n.com_iter, haystack, cs, n.tr, f)

\* a Normal arm that hands back the object reached so far when no child
\* has the name
normal_candidate_partial(t, self, name, cs, tr, f) ==
    LET haystack == from_os_str_truncate(name)
        ch == children(t, self, tr, f)
    IN  IF ~ch.ok THEN Err("Windows", ch.tr)
        ELSE LET candidate == find(t, ch.com_iter, haystack, cs, ch.tr, f)
             IN  IF ~candidate.some THEN Ok(self, candidate.tr)
                 ELSE Ok(candidate.obj, candidate.tr)

\* a Normal arm that names the object it returns after the path component
\* instead of the name the device reported
normal_candidate_path_name(t, self, name, cs, tr, f) ==
    LET haystack == from_os_str_truncate(name)
        ch == children(t, self, tr, f)
    IN  IF ~ch.ok THEN Err("Windows", ch.tr)
        ELSE LET candidate == find(t, ch.com_iter, haystack, cs, ch.tr, f)
             IN  IF ~candidate.some THEN Err("NotFound", candidate.tr)
                 ELSE Ok(Object(candidate.obj.id, name, candidate.obj.ty), candidate.tr)

\* the Normal arm of object_by_components: the first child whose name is
\* the component, or NotFound
normal_candidate(t, self, name, cs, tr, f) ==
    LET haystack == from_os_str_truncate(name)
        ch == children(t, self, tr, f)
    IN  IF ~ch.ok THEN Err("Windows", ch.tr)
        ELSE LET candidate == find(t, ch.com_iter, haystack, cs, ch.tr, f)
             IN  IF ~candidate.some THEN Err("NotFound", candidate.tr)
                 ELSE Ok(candidate.obj, candidate.tr)

\* a CurDir arm that looks "." up as if it were a child's name
cur_dir_candidate_lookup(t, self, tr, f) == normal_candidate(t, self, <<".">>, TRUE, tr, f)

\* the CurDir arm: a clone of the object itself
cur_dir_candidate(t, self, tr, f) == Ok(self, tr)

\* a ParentDir arm that goes to the root of the device instead of the parent
parent_dir_candidate_root(t, self, tr, f) ==
    LET pid == parent_id(t, self, tr, f)
    IN  IF ~pid.ok THEN Err("Windows", pid.tr)
        ELSE object_by_id(t, ROOT, pid.tr, f)

\* the ParentDir arm: the object whose id is the parent id
parent_dir_candidate(t, self, tr, f) ==
    LET pid == parent_id(t, self, tr, f)
    IN  IF ~pid.ok THEN Err("Windows", pid.tr)
        ELSE object_by_id(t, pid.id, pid.tr, f)

\* a last stage that takes the candidate and ignores the components left
object_by_components_last_stage_stop(t, candidate, next_components, cs, tr, f) ==
    Ok(candidate, tr)

\* Object::object_by_components with object_by_components_last_stage
RECURSIVE object_by_components(_, _, _, _, _, _)
object_by_components_last_stage(t, candidate, next_components, cs, tr, f) ==
    IF next_components = <<>> THEN Ok(candidate, tr)
    ELSE object_by_components(t, candidate, next_components, cs, tr, f)

object_by_components(t, self, comps, cs, tr, f) ==
    IF comps = <<>> THEN Err("NotFound", tr)
    ELSE LET c == Head(comps)
             candidate ==
                CASE c.kind = "Normal" -> normal_candidate(t, self, c.name, cs, tr, f)
                  [] c.kind = "CurDir" -> cur_dir_candidate(t, self, tr, f)
                  [] c.kind = "ParentDir" -> parent_dir_candidate(t, self, tr, f)
                  [] c.kind \in {"Prefix", "RootDir"} -> Err("AbsolutePath", tr)
         IN  IF candidate.kind # "Ok" THEN candidate
             ELSE object_by_components_last_stage(
                    t, candidate.obj, Tail(comps), cs, candidate.tr, f)

\* a split at every separator that keeps the empty pieces
RECURSIVE NaiveBody(_)
NaiveBody(s) ==
    IF s = <<>> THEN <<>>
    ELSE LET k == RunLen(s, 1)
             piece == SubSeq(s, 1, k)
             rest == SubSeq(s, k + 2, Len(s))
             comp == IF piece = <<".">> THEN CurDir
                     ELSE IF piece = <<".", ".">> THEN ParentDir
                     ELSE Normal(piece)
         IN  <<comp>> \o (IF k = Len(s) THEN <<>>
                         ELSE IF rest = <<>> THEN <<Normal(<<>>)>>
                         ELSE NaiveBody(rest))

\* an object_by_path that splits the path by hand, keeping empty pieces
object_by_path_naive(t, self, relative_path, cs, f) ==
    object_by_components(
        t, self,
        IF Components(relative_path) # <<>>
           /\ Head(Components(relative_path)).kind \in {"Prefix", "RootDir"}
        THEN Components(relative_path) ELSE NaiveBody(relative_path),
        cs, <<>>, f)

\* an object_by_path that drops a leading root or drive and resolves the rest
object_by_path_relative(t, self, relative_path, cs, f) ==
    object_by_components(
        t, self, Body(SubSeq(relative_path, PrefixLen(relative_path) + 1, Len(relative_path))),
        cs, <<>>, f)

\* an object_by_path that takes the empty path for the object itself
object_by_path_or_self(t, self, relative_path, cs, f) ==
    IF Components(relative_path) = <<>> THEN Ok(self, <<>>)
    ELSE object_by_components(t, self, Components(relative_path), cs, <<>>, f)

\* an object_by_path that answers from the call before when that call
\* resolved the same path from the same Object
object_by_path_cached(t, self, relative_path, cs, f) ==
    IF /\ prev.call.op = "object_by_path" /\ prev.call.self = self
       /\ prev.call.path = relative_path
    THEN prev.call.res
    ELSE object_by_components(t, self, Components(relative_path), cs, <<>>, f)

\* Object::object_by_path
object_by_path(t, self, relative_path, cs, f) ==
    object_by_components(t, self, Components(relative_path), cs, <<>>, f)

-----------------------------------------------------------------------------
(* The state machine *)

NoCall == [op |-> "none", self |-> Object(NoId, <<>>, ""), path |-> <<>>,
           recursive |-> FALSE, fail |-> 0, res |-> Err("", <<>>)]

\* no earlier call
NoPrev == [call |-> NoCall, modified |-> FALSE]
\* no stream adapter; an adapter has the object's id, the device's place in
\* the data (pos), the bytes the caller has read so far (received) and the
\* bytes the device has taken so far (pending)
NoStream == [mode |-> "none", id |-> NoId, pos |-> 0, received |-> <<>>, pending |-> <<>>]

\* the Object a caller holds for an object of the device
Snapshot(t, id) == Object(id, t[id].name, t[id].ty)

IsContainer(t, id) == t[id].ty # "File"
HasFreeId(t) == \E i \in 1..MaxObjs : i \notin DOMAIN t

\* the device is opened (BasicDevice::open) and holds its root object only
Init ==
    /\ tree = (ROOT :> [parent |-> NoId, name |-> RootName, ty |-> "FunctionalObject"])
    /\ case_sensitive_fs \in BOOLEAN
    /\ pc = "idle"
    /\ ret = NoCall
    /\ prev = NoPrev
    /\ data = <<>>
    /\ stream = NoStream
    /\ attached = <<>>

\* a call of Object::object_by_path
ObjectByPath(id, path, f) ==
    LET Returns(res) ==
            /\ f <= Len(res.tr)
            /\ ret' = [NoCall EXCEPT !.op = "object_by_path", !.self = Snapshot(tree, id),
                                     !.path = path, !.fail = f, !.res = res]
    IN  /\ pc = "idle"
        /\ Returns(object_by_path(tree, Snapshot(tree, id), path, case_sensitive_fs, f))
        /\ pc' = "done"
        /\ UNCHANGED <<tree, case_sensitive_fs, prev, data, stream, attached>>

\* a create_subfolder that asks the device to create the folder without
\* looking for the name first
create_subfolder_blind(t, self, folder_name, cs, f) ==
    LET tr1 == <<<<"CreateObjectWithPropertiesOnly", self.id>>>>
    IN  IF Len(tr1) = f \/ self.id \notin DOMAIN t \/ ~IsContainer(t, self.id)
        THEN [res |-> Err("Windows", tr1), tree |-> t]
        ELSE [res |-> Ok(Object(FreshId(t), <<>>, ""), tr1),
              tree |-> Created(t, self.id, from_os_str_truncate(folder_name), "Folder")]

\* Object::create_subfolder: the result and the tree it leaves.  The
\* preflight lookup stops the call only when it finds the name; on any
\* error of the lookup the native creation is attempted
create_subfolder(t, self, folder_name, cs, f) ==
    LET Create(existing) ==
            LET tr1 == Append(existing.tr, <<"CreateObjectWithPropertiesOnly", self.id>>)
            IN  IF existing.kind = "Ok"
                THEN [res |-> Err("AlreadyExists", existing.tr), tree |-> t]
                ELSE IF Len(tr1) = f \/ self.id \notin DOMAIN t \/ ~IsContainer(t, self.id)
                THEN [res |-> Err("Windows", tr1), tree |-> t]
                ELSE [res |-> Ok(Object(FreshId(t), <<>>, ""), tr1),
                      tree |-> Created(t, self.id, from_os_str_truncate(folder_name), "Folder")]
    IN  Create(object_by_path(t, self, folder_name, cs, f))

\* a call of Object::create_subfolder; the device has an id left for the
\* folder when the call gets as far as creating it
CreateSubfolder(id, folder_name, f) ==
    LET Returns(r) ==
            /\ f <= Len(r.res.tr)
            /\ tree' = r.tree
            /\ ret' = [NoCall EXCEPT !.op = "create_subfolder", !.self = Snapshot(tree, id),
                                     !.path = folder_name, !.fail = f, !.res = r.res]
    IN  /\ pc = "idle"
        /\ HasFreeId(tree)
           \/ object_by_path(tree, Snapshot(tree, id), folder_name, case_sensitive_fs, f).kind = "Ok"
        /\ Returns(create_subfolder(tree, Snapshot(tree, id), folder_name, case_sensitive_fs, f))
        /\ pc' = "done"
        /\ UNCHANGED <<case_sensitive_fs, prev, data, stream, attached>>

\* IPortableDeviceContent::Delete: the device deletes the object, with what
\* is below it if asked to, and refuses the root and, without recursion, an
\* object that has children
DeviceDeletes(t, id, recursive) ==
    id \in DOMAIN t /\ id # ROOT /\ (recursive \/ ChildIds(t, id) = <<>>)

\* Object::delete: the native call's result is unwrapped, so a failure code
\* panics; s_false tells whether a refusing device answers with the success
\* code S_FALSE (TRUE) or with a failure code (FALSE)
delete(t, self, recursive, s_false, f) ==
    LET tr1 == <<<<"Delete", self.id>>>>
    IN  IF f = 1 THEN [res |-> Err("Panic", tr1), tree |-> t]
        ELSE IF DeviceDeletes(t, self.id, recursive)
        THEN [res |-> Ok(Object(NoId, <<>>, ""), tr1), tree |-> Deleted(t, self.id)]
        ELSE IF s_false THEN [res |-> Ok(Object(NoId, <<>>, ""), tr1), tree |-> t]
        ELSE [res |-> Err("Panic", tr1), tree |-> t]

\* a call of Object::delete; a panic ends the program
Delete(id, recursive, s_false, f) ==
    /\ pc = "idle"
    /\ LET r == delete(tree, Snapshot(tree, id), recursive, s_false, f)
       IN  /\ s_false => (f = 0 /\ ~DeviceDeletes(tree, id, recursive))
           /\ tree' = r.tree
           /\ ret' = [NoCall EXCEPT !.op = "delete", !.self = Snapshot(tree, id),
                                    !.recursive = recursive, !.fail = f, !.res = r.res]
           /\ pc' = IF r.res.err = "Panic" THEN "aborted" ELSE "done"
    /\ UNCHANGED <<case_sensitive_fs, prev, data, stream, attached>>

\* another user of the device adds an object to it
ExternalAdd(parentId, name, ty) ==
    /\ pc = "idle"
    /\ HasFreeId(tree)
    /\ IsContainer(tree, parentId)
    /\ tree' = Created(tree, parentId, name, ty)
    /\ UNCHANGED <<case_sensitive_fs, pc, ret, prev, data, stream, attached>>

\* the caller is done with the result of its call
Return ==
    /\ pc = "done"
    /\ pc' = "idle"
    /\ ret' = NoCall
    /\ UNCHANGED <<tree, case_sensitive_fs, prev, data, stream, attached>>

-----------------------------------------------------------------------------
(* A caller that keeps an Object and calls on it again, while another user *)
(* of the device adds and removes objects                                  *)

\* the result of iterating: the objects, in the order they came
Listed(items, tr) ==
    [kind |-> "Ok", obj |-> Object(NoId, <<>>, ""), err |-> "", tr |-> tr, items |-> items]

\* Iterator::collect (or a for loop) over an ObjectIterator: the objects up
\* to the first None
RECURSIVE collect(_, _, _, _)
collect(t, com_iter, tr, f) ==
    LET More(n) ==
            IF ~n.some THEN Listed(<<>>, n.tr)
            ELSE LET Rest(r) == Listed(<<n.obj>> \o r.items, r.tr)
                 IN  Rest(collect(t, n.com_iter, n.tr, f))
    IN  More(next(t, com_iter, tr, f))

\* Object::children()? iterated to its end, as Content::functional_objects
\* and the callers of sub_folders do
list_children(t, self, f) ==
    LET Iterate(ch) ==
            IF ~ch.ok THEN [items |-> <<>>] @@ Err("Windows", ch.tr)
            ELSE collect(t, ch.com_iter, ch.tr, f)
    IN  Iterate(children(t, self, <<>>, f))

\* a call of Object::children whose iterator is run to its end
ListChildren(id, f) ==
    LET Returns(res) ==
            /\ f <= Len(res.tr)
            /\ ret' = [NoCall EXCEPT !.op = "children", !.self = Snapshot(tree, id),
                                     !.fail = f, !.res = res]
    IN  /\ pc = "idle"
        /\ Returns(list_children(tree, Snapshot(tree, id), f))
        /\ pc' = "done"
        /\ UNCHANGED <<tree, case_sensitive_fs, prev, data, stream, attached>>

\* the call before is made again on the same Object in memory, whatever has
\* become of the object on the device
Again(f) ==
    LET Returns(res) ==
            /\ f <= Len(res.tr)
            /\ ret' = [prev.call EXCEPT !.fail = f, !.res = res]
    IN  /\ pc = "idle"
        /\ prev.call.op \in {"children", "object_by_path"}
        /\ Returns(IF prev.call.op = "children"
                   THEN list_children(tree, prev.call.self, f)
                   ELSE object_by_path(tree, prev.call.self, prev.call.path,
                                       case_sensitive_fs, f))
        /\ pc' = "done"
        /\ UNCHANGED <<tree, case_sensitive_fs, prev, data, stream, attached>>

\* another user of the device adds a folder
OtherAdds(parentId, name) ==
    /\ pc = "idle"
    /\ Cardinality(DOMAIN tree) <= MaxHeldObjs
    /\ tree' = Created(tree, parentId, name, "Folder")
    /\ prev' = [prev EXCEPT !.modified = TRUE]
    /\ UNCHANGED <<case_sensitive_fs, pc, ret, data, stream, attached>>

\* another user of the device removes an object and what is below it
OtherRemoves(id) ==
    /\ pc = "idle"
    /\ id # ROOT
    /\ tree' = Deleted(tree, id)
    /\ prev' = [prev EXCEPT !.modified = TRUE]
    /\ UNCHANGED <<case_sensitive_fs, pc, ret, data, stream, attached>>

\* the caller takes the result and keeps the Object for its next call
ReturnHeld ==
    /\ pc = "done"
    /\ pc' = "idle"
    /\ prev' = [call |-> ret, modified |-> FALSE]
    /\ ret' = NoCall
    /\ UNCHANGED <<tree, case_sensitive_fs, data, stream, attached>>

-----------------------------------------------------------------------------
(* Transfers: push_file, and the stream adapters of io/mod.rs             *)

Bytes == {0, 1}
Contents == UNION {[1..k -> Bytes] : k \in 0..MaxBytes}
Min(a, b) == IF a < b THEN a ELSE b

\* what push_file finds at the local path it is given
LocalFile(file_name, exists, opens, bytes) ==
    [file_name |-> file_name, exists |-> exists, opens |-> opens, bytes |-> bytes]
LocalFiles ==
    {LocalFile(<<>>, TRUE, TRUE, <<>>),         \* a path that ends in "..": no file name
     LocalFile(<<"a">>, FALSE, FALSE, <<>>),    \* no such file
     LocalFile(<<"a">>, TRUE, FALSE, <<0>>)}    \* a file that cannot be opened
    \cup {LocalFile(<<"a">>, TRUE, TRUE, b) : b \in Contents}

\* the device's data after it made a resource of an object
Stored(d, id, size, bytes) ==
    [i \in DOMAIN d \cup {id} |-> IF i = id THEN [size |-> size, bytes |-> bytes] ELSE d[i]]

\* a write that reports the whole buffer as written
write_whole(pending, buf, accept, tr, f) ==
    LET tr1 == Append(tr, <<"Write", Len(buf)>>)
    IN  IF Len(tr1) = f THEN [ok |-> FALSE, n |-> 0, pending |-> pending, tr |-> tr1]
        ELSE [ok |-> TRUE, n |-> Len(buf),
              pending |-> pending \o SubSeq(buf, 1, Min(accept, Len(buf))), tr |-> tr1]

\* WriteStream::write: one IStream::Write; the device takes at most accept
\* bytes and the call returns the count the device reports
write(pending, buf, accept, tr, f) ==
    LET tr1 == Append(tr, <<"Write", Len(buf)>>)
    IN  IF Len(tr1) = f THEN [ok |-> FALSE, n |-> 0, pending |-> pending, tr |-> tr1]
        ELSE [ok |-> TRUE, n |-> Min(accept, Len(buf)),
              pending |-> pending \o SubSeq(buf, 1, Min(accept, Len(buf))), tr |-> tr1]

\* Write::write_all, as std::io::copy calls it: writes until the buffer is
\* empty; a write of zero bytes is an error (WriteZero)
RECURSIVE write_all(_, _, _, _, _)
write_all(pending, buf, accept, tr, f) ==
    IF buf = <<>> THEN [ok |-> TRUE, pending |-> pending, tr |-> tr]
    ELSE LET Go(w) ==
                IF ~w.ok \/ w.n = 0 THEN [ok |-> FALSE, pending |-> w.pending, tr |-> w.tr]
                ELSE write_all(w.pending, SubSeq(buf, w.n + 1, Len(buf)), accept, w.tr, f)
         IN  Go(write(pending, buf, accept, tr, f))

\* std::io::copy from the local file into the WriteStream
RECURSIVE copy(_, _, _, _, _)
copy(pending, bytes, accept, tr, f) ==
    IF bytes = <<>> THEN [ok |-> TRUE, pending |-> pending, tr |-> tr]
    ELSE LET Go(w) ==
                IF ~w.ok THEN w
                ELSE copy(w.pending, SubSeq(bytes, Min(CopyBufLen, Len(bytes)) + 1, Len(bytes)),
                          accept, w.tr, f)
         IN  Go(write_all(pending, SubSeq(bytes, 1, Min(CopyBufLen, Len(bytes))), accept, tr, f))

\* WriteStream::commit: one IStream::Commit
commit(tr, f) ==
    LET tr1 == Append(tr, <<"Commit">>)
    IN  [ok |-> Len(tr1) # f, tr |-> tr1]

\* what a call of push_file returns and leaves on the device; new_id is the
\* id the device gave to the object, which push_file does not read
Pushed(res, t, d, new_id) == [res |-> res, tree |-> t, data |-> d, new_id |-> new_id]

\* the device after a transfer that did not reach a successful Commit: the
\* state of the new object is not defined, the device keeps what it got
\* (keeps) or nothing
Abandoned(e, tr, t, d, self, name, size, pending, keeps) ==
    IF keeps
    THEN Pushed(Err(e, tr), Created(t, self.id, name, "File"),
                Stored(d, FreshId(t), size, pending), FreshId(t))
    ELSE Pushed(Err(e, tr), t, d, NoId)

\* a transfer that commits what the device has taken also when the copy
\* failed, before it returns the copy's error
transfer_commits_anyway(t, d, self, local_file, accept, no_stream, keeps, f) ==
    LET tr1 == <<<<"CreateObjectWithPropertiesAndData", self.id>>>>
        name == from_os_str_truncate(local_file.file_name)
        file_size == Len(local_file.bytes)
        Committed(c, m) ==
            IF ~m.ok
            THEN Abandoned("Windows", m.tr, t, d, self, name, file_size, c.pending, keeps)
            ELSE IF ~c.ok
            THEN Abandoned("Std", m.tr, t, d, self, name, file_size, c.pending, keeps)
            ELSE Pushed(Ok(Object(NoId, <<>>, ""), m.tr), Created(t, self.id, name, "File"),
                        Stored(d, FreshId(t), file_size, c.pending), FreshId(t))
        Copied(c) == Committed(c, commit(c.tr, f))
    IN  IF f = 1 \/ self.id \notin DOMAIN t \/ ~IsContainer(t, self.id)
        THEN Pushed(Err("Windows", tr1), t, d, NoId)
        ELSE IF no_stream
        THEN Abandoned("UnableToCreate", tr1, t, d, self, name, file_size, <<>>, keeps)
        ELSE Copied(copy(<<>>, local_file.bytes, accept, tr1, f))

\* push_file from the native create call on: CreateObjectWithPropertiesAndData,
\* the copy, the Commit
transfer(t, d, self, local_file, accept, no_stream, keeps, f) ==
    LET tr1 == <<<<"CreateObjectWithPropertiesAndData", self.id>>>>
        name == from_os_str_truncate(local_file.file_name)
        file_size == Len(local_file.bytes)
        Committed(c, m) ==
            IF ~m.ok
            THEN Abandoned("Windows", m.tr, t, d, self, name, file_size, c.pending, keeps)
            ELSE Pushed(Ok(Object(NoId, <<>>, ""), m.tr), Created(t, self.id, name, "File"),
                        Stored(d, FreshId(t), file_size, c.pending), FreshId(t))
        Copied(c) ==
            IF ~c.ok
            THEN Abandoned("Std", c.tr, t, d, self, name, file_size, c.pending, keeps)
            ELSE Committed(c, commit(c.tr, f))
    IN  IF f = 1 \/ self.id \notin DOMAIN t \/ ~IsContainer(t, self.id)
        THEN Pushed(Err("Windows", tr1), t, d, NoId)
        ELSE IF no_stream
        THEN Abandoned("UnableToCreate", tr1, t, d, self, name, file_size, <<>>, keeps)
        ELSE Copied(copy(<<>>, local_file.bytes, accept, tr1, f))

\* a push_file that goes to the device before it looks at the local file
push_file_unchecked(t, d, self, local_file, accept, no_stream, keeps, f) ==
    transfer(t, d, self, local_file, accept, no_stream, keeps, f)

\* Object::push_file
push_file(t, d, self, local_file, accept, no_stream, keeps, f) ==
    IF local_file.file_name = <<>> THEN Pushed(Err("InvalidLocalFile", <<>>), t, d, NoId)
    ELSE IF ~local_file.exists THEN Pushed(Err("Std", <<>>), t, d, NoId)
    ELSE IF ~local_file.opens THEN Pushed(Err("Std", <<>>), t, d, NoId)
    ELSE transfer(t, d, self, local_file, accept, no_stream, keeps, f)

\* a call of Object::push_file.  The device's part is drawn only where it
\* makes a difference: how many bytes it takes per write (accept) when
\* there is a write, no stream (no_stream) and what it keeps of an
\* abandoned object (keeps) when the create call succeeded
PushFile(id, local_file, accept, no_stream, keeps, f) ==
    LET Returns(r) ==
            /\ f <= Len(r.res.tr)
            /\ Calls(r.res.tr, "Write") = {} => accept = 1
            /\ no_stream => r.res.err = "UnableToCreate"
            /\ keeps => r.new_id # NoId /\ r.res.kind = "Err"
            /\ tree' = r.tree
            /\ data' = r.data
            /\ ret' = [local |-> local_file, accept |-> accept, new_id |-> r.new_id]
                       @@ [NoCall EXCEPT !.op = "push_file", !.self = Snapshot(tree, id),
                                         !.fail = f, !.res = r.res]
    IN  /\ pc = "idle"
        /\ stream = NoStream
        /\ Cardinality(DOMAIN tree) <= MaxFiles \/ ~IsContainer(tree, id)
        /\ Returns(push_file(tree, data, Snapshot(tree, id), local_file,
                             accept, no_stream, keeps, f))
        /\ pc' = "done"
        /\ UNCHANGED <<case_sensitive_fs, prev, stream, attached>>

\* Object::open_raw_stream: IPortableDeviceContent::Transfer, then
\* GetStream for the default resource of the object; a folder has none
open_raw_stream(d, self, no_stream, f) ==
    LET tr1 == <<<<"Transfer">>>>
        tr2 == Append(tr1, <<"GetStream", self.id>>)
    IN  IF f = 1 THEN Err("Windows", tr1)
        ELSE IF f = 2 \/ self.id \notin DOMAIN d THEN Err("Windows", tr2)
        ELSE IF no_stream THEN Err("UnableToCreate", tr2)
        ELSE Ok(self, tr2)

\* a call of Object::open_read_stream (mode "read"), or of open_raw_stream
\* whose stream is given to WriteStream::new (mode "write")
OpenStream(id, mode, no_stream, f) ==
    LET Returns(res) ==
            /\ f <= Len(res.tr)
            /\ no_stream => res.err = "UnableToCreate"
            /\ ret' = [NoCall EXCEPT !.op = "open_stream", !.self = Snapshot(tree, id),
                                     !.fail = f, !.res = res]
            /\ stream' = IF res.kind = "Ok" THEN [NoStream EXCEPT !.mode = mode, !.id = id]
                          ELSE stream
    IN  /\ pc = "idle"
        /\ stream = NoStream
        /\ Returns(open_raw_stream(data, Snapshot(tree, id), no_stream, f))
        /\ pc' = "done"
        /\ UNCHANGED <<tree, case_sensitive_fs, prev, data, attached>>

\* a read that takes the end-of-stream answer for an empty one
read_end_empty(d, st, n, fits, give, s_false, f) ==
    LET k == Min(Min(n, give), Len(d[st.id].bytes) - st.pos)
    IN  IF ~fits THEN [ok |-> FALSE, n |-> 0, bytes |-> <<>>, tr |-> <<>>]
        ELSE IF f = 1 THEN [ok |-> FALSE, n |-> 0, bytes |-> <<>>, tr |-> <<<<"Read", n>>>>]
        ELSE IF s_false THEN [ok |-> TRUE, n |-> 0, bytes |-> <<>>, tr |-> <<<<"Read", n>>>>]
        ELSE [ok |-> TRUE, n |-> k, bytes |-> SubSeq(d[st.id].bytes, st.pos + 1, st.pos + k),
              tr |-> <<<<"Read", n>>>>]

\* ReadStream::read into a buffer: when the buffer's length fits in a u32
\* (fits, and then n is the length) there is one IStream::Read, of which the
\* device gives at most give bytes, and S_OK and S_FALSE (s_false) both
\* return the count the device reports; a longer buffer (then n is the low
\* 32 bits of its length) is refused before any native call
read(d, st, n, fits, give, s_false, f) ==
    LET k == Min(Min(n, give), Len(d[st.id].bytes) - st.pos)
    IN  IF ~fits THEN [ok |-> FALSE, n |-> 0, bytes |-> <<>>, tr |-> <<>>]
        ELSE IF f = 1 THEN [ok |-> FALSE, n |-> 0, bytes |-> <<>>, tr |-> <<<<"Read", n>>>>]
        ELSE [ok |-> TRUE, n |-> k, bytes |-> SubSeq(d[st.id].bytes, st.pos + 1, st.pos + k),
              tr |-> <<<<"Read", n>>>>]

\* a call of ReadStream::read; the device moves on by the bytes it gave,
\* whatever the adapter made of them, and answers S_FALSE only when it
\* gave fewer bytes than asked for
Read(n, fits, give, s_false, f) ==
    LET k == Min(Min(n, give), Len(data[stream.id].bytes) - stream.pos)
        Returns(r) ==
            /\ ret' = [requested |-> n, fits |-> fits, n |-> r.n, s_false |-> s_false]
                       @@ [NoCall EXCEPT !.op = "read", !.fail = f,
                                         !.res = IF r.ok THEN Ok(Object(NoId, <<>>, ""), r.tr)
                                                 ELSE Err("Std", r.tr)]
            /\ stream' = [stream EXCEPT !.pos = IF r.tr = <<>> \/ f = 1 THEN @ ELSE @ + k,
                                        !.received = @ \o r.bytes]
    IN  /\ pc = "idle"
        /\ stream.mode = "read"
        /\ s_false => k < n /\ f = 0
        /\ Returns(read(data, stream, n, fits, give, s_false, f))
        /\ pc' = "done"
        /\ UNCHANGED <<tree, case_sensitive_fs, prev, data, attached>>

\* a call of WriteStream::write
Write(buf, accept, f) ==
    LET Returns(w) ==
            /\ ret' = [requested |-> Len(buf), n |-> w.n]
                       @@ [NoCall EXCEPT !.op = "write", !.fail = f,
                                         !.res = IF w.ok THEN Ok(Object(NoId, <<>>, ""), w.tr)
                                                 ELSE Err("Std", w.tr)]
            /\ stream' = [stream EXCEPT !.pending = w.pending]
    IN  /\ pc = "idle"
        /\ stream.mode = "write"
        /\ Len(stream.pending) + Len(buf) <= MaxBytes
        /\ Returns(write(stream.pending, buf, accept, <<>>, f))
        /\ pc' = "done"
        /\ UNCHANGED <<tree, case_sensitive_fs, prev, data, attached>>

\* a flush that has nothing to drain and reports success
flush_drain(tr, f) == Ok(Object(NoId, <<>>, ""), tr)

\* WriteStream::flush: commit, its error made a std::io::Error
flush(tr, f) ==
    LET Mapped(c) == IF c.ok THEN Ok(Object(NoId, <<>>, ""), c.tr) ELSE Err("Std", c.tr)
    IN  Mapped(commit(tr, f))

\* a call of WriteStream::flush; a Commit that succeeds makes the bytes the
\* device has taken the data of the object, which changes the device
Flush(f) ==
    LET Returns(res) ==
            /\ ret' = [NoCall EXCEPT !.op = "flush", !.fail = f, !.res = res]
            /\ IF Calls(res.tr, "Commit") # {} /\ f = 0
               THEN /\ data' = Stored(data, stream.id, Len(stream.pending), stream.pending)
                    /\ prev' = [prev EXCEPT !.modified = TRUE]
               ELSE UNCHANGED <<data, prev>>
    IN  /\ pc = "idle"
        /\ stream.mode = "write"
        /\ Returns(flush(<<>>, f))
        /\ pc' = "done"
        /\ UNCHANGED <<tree, case_sensitive_fs, stream, attached>>

\* the caller drops its stream adapter
DropStream ==
    /\ pc = "idle"
    /\ stream # NoStream
    /\ stream' = NoStream
    /\ UNCHANGED <<tree, case_sensitive_fs, pc, ret, prev, data, attached>>

\* the caller takes the result of its call; the last push_file that
\* succeeded is remembered
ReturnTransfer ==
    /\ pc = "done"
    /\ pc' = "idle"
    /\ prev' = IF ret.op = "push_file" /\ ret.res.kind = "Ok"
                THEN [call |-> ret, modified |-> FALSE] ELSE prev
    /\ ret' = NoCall
    /\ UNCHANGED <<tree, case_sensitive_fs, data, stream, attached>>

-----------------------------------------------------------------------------
(* The provider: listing the devices that are plugged in, while devices    *)
(* are plugged in, unplugged and renamed                                   *)

DevIds == 1..MaxDevs
\* friendly names; a device may have none
DevNames == {<<>>, <<"n">>}
\* the sets of plugged-in devices
DeviceSets == UNION {[S -> DevNames] : S \in SUBSET DevIds}

\* the ids that GetDevices writes into room for n ids: the first ones of the
\* manager's list
RECURSIVE IdsFrom(_, _, _)
IdsFrom(att, i, n) ==
    IF i > MaxDevs \/ n = 0 THEN <<>>
    ELSE IF i \in DOMAIN att THEN <<i>> \o IdsFrom(att, i + 1, n - 1)
    ELSE IdsFrom(att, i + 1, n)

\* the length GetDeviceFriendlyName reports for a name: its characters and
\* the terminator, or 0 when there is no name
required_len(name) == IF name = <<>> THEN 0 ELSE Len(name) + 1

\* BasicDevice::new
BasicDevice(device_id, friendly_name) == [device_id |-> device_id, friendly_name |-> friendly_name]

\* what the provider's functions return: Ok with the name or the devices, or
\* an error with nothing
Got(value, tr) == [kind |-> "Ok", value |-> value, err |-> "", tr |-> tr]
Failed(e, tr) == [kind |-> "Err", value |-> <<>>, err |-> e, tr |-> tr]

\* get_friendly_name: GetDeviceFriendlyName for the length, then for the
\* name; short holds the devices whose name got shorter between the two
\* calls, so that the second call reports a smaller length
get_friendly_name(att, dev_id, short, tr, f) ==
    LET tr1 == Append(tr, <<"GetDeviceFriendlyName", dev_id>>)
        tr2 == Append(tr1, <<"GetDeviceFriendlyName", dev_id>>)
    IN  IF Len(tr1) = f \/ dev_id \notin DOMAIN att THEN Failed("Windows", tr1)
        ELSE IF required_len(att[dev_id]) = 0 THEN Got(<<>>, tr1)
        ELSE IF Len(tr2) = f THEN Failed("Windows", tr2)
        ELSE IF dev_id \in short THEN Failed("ChangedConditions", tr2)
        ELSE Got(att[dev_id], tr2)

\* the loop of enumerate_devices over the ids: the first name that fails
\* ends the call with that error
RECURSIVE build(_, _, _, _, _)
build(att, dev_ids, short, tr, f) ==
    IF dev_ids = <<>> THEN Got(<<>>, tr)
    ELSE LET Named(name) ==
                IF name.kind = "Err" THEN name
                ELSE LET Rest(r) ==
                             IF r.kind = "Err" THEN r
                             ELSE Got(<<BasicDevice(Head(dev_ids), name.value)>> \o r.value, r.tr)
                     IN  Rest(build(att, Tail(dev_ids), short, name.tr, f))
         IN  Named(get_friendly_name(att, Head(dev_ids), short, tr, f))

\* an enumerate_devices that takes the ids the second call gave, however
\* many they are
enumerate_devices_unchecked(att, after, short, f) ==
    LET tr1 == <<<<"CoCreateInstance">>>>
        tr2 == Append(tr1, <<"RefreshDeviceList">>)
        tr3 == Append(tr2, <<"GetDevices", 0>>)
        dev_count == Cardinality(DOMAIN att)
        tr4 == Append(tr3, <<"GetDevices", dev_count>>)
    IN  IF Len(tr1) = f THEN Failed("Windows", tr1)
        ELSE IF Len(tr2) = f THEN Failed("Windows", tr2)
        ELSE IF Len(tr3) = f THEN Failed("Windows", tr3)
        ELSE IF dev_count = 0 THEN Got(<<>>, tr3)
        ELSE IF Len(tr4) = f THEN Failed("Windows", tr4)
        ELSE build(after, IdsFrom(after, 1, dev_count), short, tr4, f)

\* Provider::enumerate_devices: the device manager, RefreshDeviceList,
\* GetDevices for the count, GetDevices for that many ids, then the names.
\* att is the set of devices at the first GetDevices, after the set from the
\* second GetDevices on
enumerate_devices(att, after, short, f) ==
    LET tr1 == <<<<"CoCreateInstance">>>>
        tr2 == Append(tr1, <<"RefreshDeviceList">>)
        tr3 == Append(tr2, <<"GetDevices", 0>>)
        dev_count == Cardinality(DOMAIN att)
        tr4 == Append(tr3, <<"GetDevices", dev_count>>)
        fetched_devices == Min(dev_count, Cardinality(DOMAIN after))
    IN  IF Len(tr1) = f THEN Failed("Windows", tr1)
        ELSE IF Len(tr2) = f THEN Failed("Windows", tr2)
        ELSE IF Len(tr3) = f THEN Failed("Windows", tr3)
        ELSE IF dev_count = 0 THEN Got(<<>>, tr3)
        ELSE IF Len(tr4) = f THEN Failed("Windows", tr4)
        ELSE IF fetched_devices # dev_count THEN Failed("ChangedConditions", tr4)
        ELSE build(after, IdsFrom(after, 1, dev_count), short, tr4, f)

\* a call of Provider::enumerate_devices, during which the devices plugged
\* in change from attached to after.  The changes are drawn only where the
\* call can see them
EnumerateDevices(after, short, f) ==
    LET Returns(res) ==
            /\ f <= Len(res.tr)
            /\ Len(res.tr) < 4 => after = attached
            /\ \A d \in short : \E i \in 2..Len(res.tr) :
                    res.tr[i] = <<"GetDeviceFriendlyName", d>> /\ res.tr[i - 1] = res.tr[i]
            /\ ret' = [count |-> Cardinality(DOMAIN attached), short |-> short]
                       @@ [NoCall EXCEPT !.op = "enumerate_devices", !.fail = f, !.res = res]
    IN  /\ pc = "idle"
        /\ Returns(enumerate_devices(attached, after, short, f))
        /\ attached' = after
        /\ pc' = "done"
        /\ UNCHANGED <<tree, case_sensitive_fs, prev, data, stream>>

\* a device is plugged in
Plug(dev_id, name) ==
    /\ pc = "idle"
    /\ dev_id \notin DOMAIN attached
    /\ attached' = [i \in DOMAIN attached \cup {dev_id} |->
                        IF i = dev_id THEN name ELSE attached[i]]
    /\ UNCHANGED <<tree, case_sensitive_fs, pc, ret, prev, data, stream>>

\* a device is unplugged
Unplug(dev_id) ==
    /\ pc = "idle"
    /\ dev_id \in DOMAIN attached
    /\ attached' = [i \in DOMAIN attached \ {dev_id} |-> attached[i]]
    /\ UNCHANGED <<tree, case_sensitive_fs, pc, ret, prev, data, stream>>

Idle == pc = "idle"

Next ==
    \/ Idle /\ \E id \in DOMAIN tree, path \in Paths : ObjectByPath(id, path, 0)
    \/ Idle /\ \E id \in DOMAIN tree, path \in ShortPaths, f \in 1..MaxFail : ObjectByPath(id, path, f)
    \/ Idle /\ \E id \in DOMAIN tree, name \in Names, f \in 0..MaxFail : CreateSubfolder(id, name, f)
    \/ Idle /\ \E id \in DOMAIN tree, recursive, s_false \in BOOLEAN, f \in 0..1 :
                Delete(id, recursive, s_false, f)
    \/ Idle /\ \E id \in DOMAIN tree, name \in Names, ty \in Types : ExternalAdd(id, name, ty)
    \/ Return

Spec == Init /\ [][Next]_vars

NextHeld ==
    \/ \E id \in DOMAIN tree, f \in 0..MaxFail : ListChildren(id, f)
    \/ \E id \in DOMAIN tree, path \in Names, f \in 0..MaxFail : ObjectByPath(id, path, f)
    \/ \E f \in 0..MaxFail : Again(f)
    \/ \E id \in DOMAIN tree, name \in Names : OtherAdds(id, name)
    \/ \E id \in DOMAIN tree : OtherRemoves(id)
    \/ ReturnHeld

SpecHeld == Init /\ [][NextHeld]_vars

NextTransfer ==
    \/ \E id \in DOMAIN tree, local_file \in LocalFiles, accept \in 0..MaxChunk,
          no_stream, keeps \in BOOLEAN, f \in 0..MaxFail :
            PushFile(id, local_file, accept, no_stream, keeps, f)
    \/ \E id \in DOMAIN tree, mode \in {"read", "write"}, no_stream \in BOOLEAN, f \in 0..2 :
            OpenStream(id, mode, no_stream, f)
    \/ \E n \in 0..MaxChunk, fits \in BOOLEAN, give \in 1..MaxChunk, s_false \in BOOLEAN,
          f \in 0..1 :
            Read(n, fits, give, s_false, f)
    \/ \E buf \in Contents, accept \in 0..MaxChunk, f \in 0..1 : Write(buf, accept, f)
    \/ \E f \in 0..1 : Flush(f)
    \/ DropStream
    \/ ReturnTransfer

\* the session is opened as case-sensitive: transfers do not look at names
InitTransfer == Init /\ case_sensitive_fs = TRUE

SpecTransfer == InitTransfer /\ [][NextTransfer]_vars

NextProvider ==
    \/ \E after \in DeviceSets, short \in SUBSET DevIds, f \in 0..(4 + 2 * MaxDevs) :
            EnumerateDevices(after, short, f)
    \/ \E dev_id \in DevIds, name \in DevNames : Plug(dev_id, name)
    \/ \E dev_id \in DevIds : Unplug(dev_id)
    \/ Return

SpecProvider == InitTransfer /\ [][NextProvider]_vars

-----------------------------------------------------------------------------
(* The properties *)

\* a call of object_by_path has returned
Resolved == pc = "done" /\ ret.op = "object_by_path"
\* the device answered every round trip of the call
Responsive == ret.fail = 0
ChildrenOf(id) == {c \in DOMAIN tree : tree[c].parent = id}
\* what the same object resolves a path to on the same, responsive device
Resolves(path) == object_by_path(tree, ret.self, path, case_sensitive_fs, 0)
SameOutcome(r1, r2) == r1.kind = r2.kind /\ r1.obj = r2.obj /\ r1.err = r2.err
\* the paths with "." components put in, each with the path it comes from
DotTable ==
    UNION {{<<Join(WithDots(c, mask)), Join(c), Len(c)>> : mask \in [1..(Len(c) + 1) -> BOOLEAN]}
           : c \in Chains(Names, MaxVarSegs)}
\* the paths "A\X\..\B", each with "A\X" and "A\B"
BackTable ==
    {<<Join(<<a, x, <<".", ".">>, b>>), Join(<<a, x>>), Join(<<a, b>>)>> : a, x, b \in Names}
\* the paths with separator runs, each with the path of single separators
SepTable ==
    {<<JoinSegs(c, sep, m, t), Join(c), Len(c)>> :
        c \in Chains(Segs, MaxVarSegs), sep \in Separators, m \in 1..MaxSeps, t \in 0..MaxSeps}
StartsAbsolute(path) ==
    Components(path) # <<>> /\ Head(Components(path)).kind \in {"Prefix", "RootDir"}

\* C1: when the object has a child whose name is the path and the device
\* answers, object_by_path succeeds with a child of the object whose name
\* equals the path under the session's case policy.
C1_ChildByName ==
    (Resolved /\ Responsive /\ \E c \in ChildrenOf(ret.self.id) : tree[c].name = ret.path)
    => /\ ret.res.kind = "Ok"
       /\ are_path_eq(ret.res.obj.name, ret.path, case_sensitive_fs)
       /\ ret.res.obj.id \in ChildrenOf(ret.self.id)

\* the sought child comes after a sibling that differs from it in case only
C1_Witness ==
    /\ Resolved /\ Responsive /\ ret.res.kind = "Ok"
    /\ \E c, d \in ChildrenOf(ret.self.id) :
        c < d /\ tree[c].name # ret.path /\ tree[d].name = ret.path /\ ret.res.obj.id = d

\* C2 (as claimed): when exactly one child matches the path without regard
\* to case and differs from it in case, a session opened with
\* case_sensitive_fs = FALSE resolves the path to that child and a session
\* opened with case_sensitive_fs = TRUE fails with NotFound.
C2_CasePolicy ==
    (Resolved /\ Responsive /\ ret.path \in Names)
    => \A c \in ChildrenOf(ret.self.id) :
        (/\ tree[c].name # ret.path
         /\ \A d \in ChildrenOf(ret.self.id) :
                are_path_eq(tree[d].name, ret.path, FALSE) <=> d = c)
        => IF case_sensitive_fs
           THEN ret.res.kind = "Err" /\ ret.res.err = "NotFound"
           ELSE ret.res.kind = "Ok" /\ ret.res.obj.id = c

\* C3: a path whose first component is a root separator or a drive-like
\* prefix fails with AbsolutePath and returns no object, whatever follows.
C3_AbsolutePath ==
    (Resolved /\ StartsAbsolute(ret.path))
    => ret.res.kind = "Err" /\ ret.res.err = "AbsolutePath" /\ ret.res.obj.id = NoId

\* the rest of the path, after the drive and the root, names a child
C3_Witness ==
    /\ Resolved /\ ret.path = <<"a", ":", "\\", "a">>
    /\ Resolves(<<"a">>).kind = "Ok"
    /\ ret.res.err = "AbsolutePath"

\* C4: object_by_path(O, ".") succeeds with an object whose id is O's.
C4_CurDir ==
    (Resolved /\ ret.path = <<".">>)
    => ret.res.kind = "Ok" /\ ret.res.obj.id = ret.self.id

C4_Witness ==
    Resolved /\ ret.path = <<".">> /\ ret.self.id # ROOT /\ ret.res.obj.id = ret.self.id

\* C5: on a responsive device, ".." from an object other than the root
\* succeeds with the object whose id the device reports as its parent, and
\* "X\.." from P, for a child X of P, succeeds with an object of P's id.
C5_ParentDir ==
    (Resolved /\ Responsive)
    => /\ (ret.path = <<".", ".">> /\ ret.self.id # ROOT)
          => ret.res.kind = "Ok" /\ ret.res.obj.id = tree[ret.self.id].parent
       /\ \A c \in ChildrenOf(ret.self.id) :
            ret.path = Join(<<tree[c].name, <<".", ".">>>>)
            => ret.res.kind = "Ok" /\ ret.res.obj.id = ret.self.id

\* ".." from an object two levels down, whose parent is not the root
C5_Witness ==
    /\ Resolved /\ Responsive /\ ret.path = <<".", ".">>
    /\ ret.self.id # ROOT /\ tree[ret.self.id].parent # ROOT
    /\ ret.res.kind = "Ok" /\ ret.res.obj.id = tree[ret.self.id].parent

\* C6 (as claimed): ".." from the root of the content tree fails with NotFound.
C6_RootParentNotFound ==
    (Resolved /\ Responsive /\ ret.self.id = ROOT /\ ret.path = <<".", ".">>)
    => ret.res.kind = "Err" /\ ret.res.err = "NotFound"

\* C7: on a responsive device, a chain of child names that resolves from an
\* object resolves to an object of the same id when "." components are put
\* before, between or after its names.
C7_CurDirNoOp ==
    (Resolved /\ Responsive)
    => \A e \in DotTable :
        (ret.path = e[1] /\ Resolves(e[2]).kind = "Ok")
        => ret.res.kind = "Ok" /\ ret.res.obj.id = Resolves(e[2]).obj.id

\* "A\.\B", and "." first and last as well, for a chain of two children
C7_Witness ==
    /\ Resolved /\ Responsive /\ ret.res.kind = "Ok"
    /\ ret.path = <<".", "\\", "a", "\\", ".", "\\", "A", "\\", ".">>
    /\ ret.res.obj.id = Resolves(<<"a", "\\", "A">>).obj.id
    /\ tree[ret.res.obj.id].parent # ret.self.id

\* C8: on a responsive device, when "A\X" and "A\B" resolve from an object,
\* "A\X\..\B" resolves to an object of the same id as "A\B".
C8_DescendAndBack ==
    (Resolved /\ Responsive)
    => \A e \in BackTable :
        (ret.path = e[1] /\ Resolves(e[2]).kind = "Ok" /\ Resolves(e[3]).kind = "Ok")
        => ret.res.kind = "Ok" /\ ret.res.obj.id = Resolves(e[3]).obj.id

\* X and B are two different children of A
C8_Witness ==
    /\ Resolved /\ Responsive /\ ret.res.kind = "Ok"
    /\ \E e \in BackTable :
        /\ ret.path = e[1]
        /\ Resolves(e[2]).kind = "Ok"
        /\ Resolves(e[2]).obj.id # ret.res.obj.id
        /\ ret.res.obj.id = Resolves(e[3]).obj.id

\* C9: the empty path fails with NotFound on every object and returns no
\* object, not the starting one either.
C9_EmptyPath ==
    (Resolved /\ ret.path = <<>>)
    => ret.res.kind = "Err" /\ ret.res.err = "NotFound" /\ ret.res.obj.id = NoId

C9_Witness ==
    Resolved /\ ret.path = <<>> /\ ret.self.id # ROOT /\ ret.res.err = "NotFound"

\* C10: on a responsive device, a path whose components are separated by
\* runs of separators and that ends with separators has the outcome (the
\* object, or the error) of the path with single separators and none at the
\* end; and no path has a Normal component with an empty name.
C10_SeparatorRuns ==
    Resolved
    => /\ Responsive
          => \A e \in SepTable :
                ret.path = e[1] => SameOutcome(ret.res, Resolves(e[2]))
       /\ \A i \in 1..Len(Components(ret.path)) :
            Components(ret.path)[i].kind = "Normal" => Components(ret.path)[i].name # <<>>

\* two children deep, with a run of separators between and at the end
C10_Witness ==
    /\ Resolved /\ Responsive /\ ret.res.kind = "Ok"
    /\ ret.path = <<"a">> \o Repeat("\\", MaxSeps) \o <<"A">> \o Repeat("\\", MaxSeps)
    /\ SameOutcome(ret.res, Resolves(<<"a", "\\", "A">>))

\* the object reached by the first n components of the path of the call, on
\* a responsive device
Reached(n) ==
    IF n = 0 THEN Ok(ret.self, <<>>)
    ELSE object_by_components(
            tree, ret.self, SubSeq(Components(ret.path), 1, n), case_sensitive_fs, <<>>, 0)
\* no child of the object has the name (as far as its first NUL), under the
\* session's case policy
NoMatch(id, name) ==
    \A c \in ChildrenOf(id) :
        ~are_path_eq(tree[c].name, from_os_str_truncate(name), case_sensitive_fs)

\* C11: when a Normal component of the path, the last one or one before it,
\* has no matching child in the object that the components before it reach,
\* object_by_path returns an error and no object, and the error is NotFound
\* when the device answers every round trip.
C11_NoPartialResult ==
    Resolved
    => \A i \in 1..Len(Components(ret.path)) :
        (/\ Components(ret.path)[i].kind = "Normal"
         /\ Reached(i - 1).kind = "Ok"
         /\ NoMatch(Reached(i - 1).obj.id, Components(ret.path)[i].name))
        => /\ ret.res.kind = "Err" /\ ret.res.obj.id = NoId
           /\ Responsive => ret.res.err = "NotFound"

\* "a\A\a" where "a" resolves to an object that has a child, but none named "A"
C11_Witness ==
    /\ Resolved /\ Responsive /\ case_sensitive_fs
    /\ ret.path = <<"a", "\\", "A", "\\", "a">>
    /\ Reached(1).kind = "Ok"
    /\ ChildrenOf(Reached(1).obj.id) # {}
    /\ NoMatch(Reached(1).obj.id, <<"A">>)
    /\ ret.res.err = "NotFound" /\ ret.res.obj.id = NoId


\* C12: on a responsive device, create_subfolder(name) on a parent that has
\* a child named name fails with AlreadyExists, makes no native create call
\* and leaves the tree as it was; on a parent without such a child (never
\* created, or deleted since) it succeeds, and the parent then has a child
\* of that name, so that the next call fails with AlreadyExists.
C12_AlreadyExists ==
    [][(pc = "idle" /\ pc' = "done" /\ ret'.op = "create_subfolder" /\ ret'.fail = 0)
       => IF \E c \in ChildrenOf(ret'.self.id) : tree[c].name = ret'.path
          THEN /\ ret'.res.kind = "Err" /\ ret'.res.err = "AlreadyExists"
               /\ Calls(ret'.res.tr, "CreateObjectWithPropertiesOnly") = {}
               /\ tree' = tree
          ELSE /\ ret'.res.kind = "Ok"
               /\ Cardinality(Calls(ret'.res.tr, "CreateObjectWithPropertiesOnly")) = 1
               /\ \E c \in DOMAIN tree' \ DOMAIN tree :
                    /\ tree'[c].parent = ret'.self.id /\ tree'[c].name = ret'.path
                    /\ tree'[c].ty = "Folder"
                    /\ DOMAIN tree' = DOMAIN tree \cup {c}
               /\ \A c \in DOMAIN tree : tree'[c] = tree[c]]_vars

\* the call was refused for a folder that is not the first child of its
\* parent, and that has children of its own
C12_Witness ==
    /\ pc = "done" /\ ret.op = "create_subfolder" /\ ret.fail = 0
    /\ ret.res.err = "AlreadyExists"
    /\ \E c, d \in ChildrenOf(ret.self.id) :
        c < d /\ tree[c].name # ret.path /\ tree[d].name = ret.path /\ ChildrenOf(d) # {}

\* the round trip that the device failed is one of the scan for a Normal
\* component: the cursor's Next, or the property fetch for the id it gave
FailedInScan ==
    /\ ret.fail > 0
    /\ \/ ret.res.tr[ret.fail][1] = "Next"
       \/ /\ ret.res.tr[ret.fail][1] = "GetValues"
          /\ ret.fail > 1 /\ ret.res.tr[ret.fail - 1][1] = "Next"

\* C15 (as claimed): when the device fails a round trip of the scan for a
\* Normal component, object_by_path returns the Windows error, never
\* NotFound.
C15_ScanFailureSurfaces ==
    (Resolved /\ FailedInScan)
    => ret.res.kind = "Err" /\ ret.res.err = "Windows"

\* C16 (as claimed): delete with recursive = FALSE on a folder that the
\* device refuses to delete (it has children) returns an Err value: the
\* call does not return Ok(()), does not abort the program, and the folder
\* is still on the device.
C16_DeleteFolderErr ==
    (/\ pc \in {"done", "aborted"} /\ ret.op = "delete" /\ ~ret.recursive
     /\ ret.self.ty = "Folder" /\ ChildrenOf(ret.self.id) # {})
    => /\ pc = "done"
       /\ ret.res.kind = "Err"
       /\ ret.self.id \in DOMAIN tree

\* C18: an object that object_by_path returned is found by
\* Content::object_by_id under its id, on the device as the call left it,
\* with the same id, name and type.
C18_ByIdAgrees ==
    (Resolved /\ ret.res.kind = "Ok")
    => /\ object_by_id(tree, ret.res.obj.id, <<>>, 0).kind = "Ok"
       /\ object_by_id(tree, ret.res.obj.id, <<>>, 0).obj = ret.res.obj

\* the object is a folder two levels below the object the path started from
C18_Witness ==
    /\ Resolved /\ ret.res.kind = "Ok" /\ ret.res.obj.ty = "Folder"
    /\ ret.res.obj.id # ROOT
    /\ tree[ret.res.obj.id].parent \in ChildrenOf(ret.self.id)
    /\ object_by_id(tree, ret.res.obj.id, <<>>, 0).obj = ret.res.obj

\* the names of the objects an iteration gave
NameSet(items) == {items[i].name : i \in 1..Len(items)}

\* children() was called and run to its end twice on the same Object, the
\* device answered every round trip and nobody changed it in between
ListedTwice ==
    /\ pc = "done" /\ ret.op = "children" /\ prev.call.op = "children"
    /\ prev.call.self = ret.self /\ ~prev.modified
    /\ ret.fail = 0 /\ prev.call.fail = 0

Repeated ==
    /\ pc = "done" /\ ret.op = "object_by_path" /\ prev.call.op = "object_by_path"
    /\ prev.call.self = ret.self /\ prev.call.path = ret.path

\* C20: the second of two object_by_path(O, X) calls on the same Object in
\* memory answers from the device as it is now, whatever the first call
\* returned and whatever another user did in between: when O has a child
\* named X it returns a child of O of that name as the device reports it,
\* otherwise it fails, with NotFound when O itself is still there.
C20_NoCache ==
    (Repeated /\ Responsive)
    => IF \E c \in ChildrenOf(ret.self.id) : tree[c].name = ret.path
       THEN /\ ret.res.kind = "Ok"
            /\ ret.res.obj.id \in ChildrenOf(ret.self.id)
            /\ ret.res.obj = Snapshot(tree, ret.res.obj.id)
            /\ ret.res.obj.name = ret.path
       ELSE /\ ret.res.kind = "Err" /\ ret.res.obj.id = NoId
            /\ ret.self.id \in DOMAIN tree => ret.res.err = "NotFound"

\* the first call found X, another user removed it, the second call does
\* not find it
C20_Witness ==
    /\ Repeated /\ Responsive /\ prev.modified
    /\ prev.call.fail = 0 /\ prev.call.res.kind = "Ok"
    /\ prev.call.res.obj.id \notin DOMAIN tree
    /\ ret.self.id \in DOMAIN tree
    /\ ret.res.err = "NotFound"

\* reading has come to the end of the data: a read into a buffer that is
\* not empty returned Ok(0)
AtEnd ==
    /\ pc = "done" /\ ret.op = "read" /\ ret.res.kind = "Ok"
    /\ ret.requested > 0 /\ ret.n = 0
\* the stream is open on the object that the last successful push_file
\* made, and nothing was written to the device since
ReadsPushed ==
    /\ stream.mode = "read" /\ prev.call.op = "push_file" /\ prev.call.new_id = stream.id
    /\ ~prev.modified

\* C13: when the object that a successful push_file made (its writes and
\* its Commit) is read through a ReadStream to the end of the data, the
\* bytes read are the bytes of the local file, in their order, and the size
\* the device reports for the object is their number.
C13_RoundTrip ==
    (AtEnd /\ ReadsPushed)
    => /\ stream.received = prev.call.local.bytes
       /\ data[stream.id].size = Len(prev.call.local.bytes)

\* a file of MaxBytes bytes, not all the same, that the device took in
\* more writes than std::io::copy had chunks, and gave back in more than
\* one read
C13_Witness ==
    /\ AtEnd /\ ReadsPushed
    /\ Len(prev.call.local.bytes) = MaxBytes
    /\ \E i, j \in 1..MaxBytes : prev.call.local.bytes[i] # prev.call.local.bytes[j]
    /\ Cardinality(Calls(prev.call.res.tr, "Write")) = MaxBytes
    /\ stream.received = prev.call.local.bytes
    /\ stream.pos = MaxBytes

\* C17: a call of WriteStream::flush makes exactly one native call, a
\* Commit, and returns Ok exactly when that Commit succeeded; after Ok the
\* device holds the bytes written through the stream.
C17_FlushCommits ==
    (pc = "done" /\ ret.op = "flush")
    => /\ Len(ret.res.tr) = 1 /\ Calls(ret.res.tr, "Commit") = {1}
       /\ ret.res.kind = "Ok" <=> ret.fail = 0
       /\ ret.res.kind = "Ok" => data[stream.id].bytes = stream.pending

\* a flush after bytes were written returned Ok
C17_Witness ==
    /\ pc = "done" /\ ret.op = "flush" /\ ret.res.kind = "Ok"
    /\ stream.pending # <<>>
    /\ data[stream.id].bytes = stream.pending

\* the local path has no file name, or no file is there, or the file
\* cannot be opened
BadLocalFile(local_file) ==
    local_file.file_name = <<>> \/ ~local_file.exists \/ ~local_file.opens

\* C19: push_file with a local path that has no file name, that does not
\* exist or that cannot be opened fails with InvalidLocalFile or with the
\* std I/O error, makes no native call, and leaves the device's objects and
\* data as they were.
C19_BadLocalFile ==
    [][(pc = "idle" /\ pc' = "done" /\ ret'.op = "push_file" /\ BadLocalFile(ret'.local))
       => /\ ret'.res.kind = "Err"
          /\ ret'.res.err = IF ret'.local.file_name = <<>> THEN "InvalidLocalFile" ELSE "Std"
          /\ ret'.res.tr = <<>>
          /\ tree' = tree /\ data' = data]_vars

\* a file that exists but cannot be opened was pushed while the device
\* already held an object created by an earlier push_file
C19_Witness ==
    /\ pc = "done" /\ ret.op = "push_file"
    /\ ret.local.exists /\ ~ret.local.opens
    /\ ret.res.err = "Std" /\ ret.res.tr = <<>>
    /\ ChildrenOf(ROOT) # {} /\ data # <<>>

\* the children of an object that have a name, in the device's enumeration
\* order
RECURSIVE Matches(_, _)
Matches(ids, name) ==
    IF ids = <<>> THEN <<>>
    ELSE (IF tree[Head(ids)].name = name THEN <<Head(ids)>> ELSE <<>>) \o Matches(Tail(ids), name)

\* the place of an id in a sequence of ids
Place(ids, id) == CHOOSE i \in 1..Len(ids) : ids[i] = id

\* C21: a one-name path that resolves gives the first child of that name in
\* the device's enumeration order, after asking the cursor for exactly the
\* ids up to that child and no more; a two-name path goes on from the first
\* child of the first name, whatever later children of that name hold.
C21_FirstMatch ==
    /\ (Resolved /\ ret.path \in Names /\ ret.res.kind = "Ok") =>
          LET ids == ChildIds(tree, ret.self.id)
              same == Matches(ids, ret.path)
          IN  /\ same # <<>>
              /\ ret.res.obj.id = Head(same)
              /\ Cardinality(Calls(ret.res.tr, "Next")) = Place(ids, Head(same))
              /\ ret.res.tr[Len(ret.res.tr)] = <<"GetValues", Head(same)>>
    /\ \A n1, n2 \in Names :
          (Resolved /\ Responsive /\ ret.path = Join(<<n1, n2>>)
              /\ Matches(ChildIds(tree, ret.self.id), n1) # <<>>) =>
            LET first == Head(Matches(ChildIds(tree, ret.self.id), n1))
            IN  SameOutcome(ret.res, object_by_path(tree, Snapshot(tree, first), n2,
                                                    case_sensitive_fs, 0))

\* a name that two children have was resolved, and the first of them is not
\* the first child the device enumerates
C21_Witness ==
    /\ Resolved /\ ret.path \in Names /\ ret.res.kind = "Ok"
    /\ Len(Matches(ChildIds(tree, ret.self.id), ret.path)) > 1
    /\ ChildIds(tree, ret.self.id)[1] # ret.res.obj.id

\* a two-name path fails at the first child of the first name although a
\* later child of that name holds the second name
NoBacktrackCase ==
    /\ Resolved /\ Responsive /\ ret.res.err = "NotFound"
    /\ \E n1, n2 \in Names :
          /\ ret.path = Join(<<n1, n2>>)
          /\ \E c \in DOMAIN tree, g \in DOMAIN tree :
                /\ tree[c].parent = ret.self.id /\ tree[c].name = n1
                /\ tree[g].parent = c /\ tree[g].name = n2

\* a held Object's children were iterated to the end
ListedAll == pc = "done" /\ ret.op = "children" /\ ret.self.id \in DOMAIN tree

JustRead == pc = "idle" /\ pc' = "done" /\ ret'.op = "read"

\* what one call of ReadStream::read that makes its one IStream::Read
\* returns: the count the device reports (the bytes the device moved on by)
\* as Ok for S_OK and S_FALSE alike, short or zero counts included, and an
\* error only when the native call failed
OneTransfer ==
    /\ ret'.res.tr = <<<<"Read", ret'.requested>>>>
    /\ ret'.fail = 0 =>
          /\ ret'.res.kind = "Ok"
          /\ ret'.n = stream'.pos - stream.pos
          /\ 0 <= ret'.n /\ ret'.n <= ret'.requested
          /\ stream'.received =
                stream.received \o SubSeq(data[stream.id].bytes, stream.pos + 1, stream'.pos)
    /\ ret'.fail # 0 => ret'.res.kind = "Err" /\ stream' = stream

\* C23 as stated: every call of ReadStream::read makes exactly one native
\* Read and returns the count it reports as Ok, on S_OK and on S_FALSE;
\* only a failure of the native call is returned as Err.
C23_OneTransferPerRead == [][JustRead => OneTransfer]_vars

\* C23 amended: the same for every buffer whose length fits in a u32; a
\* longer buffer is refused with an error before any native call, and the
\* stream stays where it was.
C23_OneTransferIfFits ==
    [][JustRead => IF ret'.fits THEN OneTransfer
                   ELSE ret'.res.kind = "Err" /\ ret'.res.tr = <<>> /\ stream' = stream]_vars

\* the device answered a read with S_FALSE and fewer bytes than asked for,
\* but not with none, and the call returned that count
C23_Witness ==
    /\ pc = "done" /\ ret.op = "read" /\ ret.fits /\ ret.s_false
    /\ ret.res.kind = "Ok" /\ 0 < ret.n /\ ret.n < ret.requested

\* a call of push_file has returned
PushedFile == pc = "done" /\ ret.op = "push_file"

\* the number of bytes the device took in the writes of a call
RECURSIVE Taken(_, _)
Taken(tr, accept) ==
    IF tr = <<>> THEN 0
    ELSE (IF Head(tr)[1] = "Write" THEN Min(accept, Head(tr)[2]) ELSE 0) + Taken(Tail(tr), accept)

\* C24: the native calls of a push_file that gets to the device are one
\* CreateObjectWithPropertiesAndData first, then writes only, then at most
\* one Commit, which is the last call and comes when the device has taken
\* every byte of the local file.  The call returns Ok only when that Commit
\* was made and succeeded.  When the create call or a write fails there is
\* no Commit, the call returns the error, and no call ever deletes the
\* object.
C24_CallOrder ==
    (PushedFile /\ ret.res.tr # <<>>) =>
        LET tr == ret.res.tr
            last == tr[Len(tr)][1]
        IN  /\ tr[1] = <<"CreateObjectWithPropertiesAndData", ret.self.id>>
            /\ Calls(tr, "CreateObjectWithPropertiesAndData") = {1}
            /\ \A i \in 2..Len(tr) : tr[i][1] = "Write" \/ (i = Len(tr) /\ tr[i][1] = "Commit")
            /\ Calls(tr, "Delete") = {}
            /\ last = "Commit" => Taken(tr, ret.accept) = Len(ret.local.bytes)
            /\ ret.res.kind = "Ok" <=> (last = "Commit" /\ ret.fail = 0)
            /\ (ret.fail # 0 /\ tr[ret.fail][1] # "Commit") =>
                  /\ Calls(tr, "Commit") = {}
                  /\ ret.fail = Len(tr)
                  /\ ret.res.err = IF ret.fail = 1 THEN "Windows" ELSE "Std"
            /\ (last # "Commit" /\ ret.fail = 0) => ret.res.err \in {"Windows", "UnableToCreate", "Std"}

\* the second write of a push failed after the device took the first
\* bytes; the object is still on the device with what it took
C24_Witness ==
    /\ PushedFile /\ ret.res.err = "Std"
    /\ ret.fail = 3 /\ Len(ret.res.tr) = 3
    /\ ret.new_id \in DOMAIN tree
    /\ Len(data[ret.new_id].bytes) < Len(ret.local.bytes)

\* C25 (as claimed): when the device fails a round trip of the lookup that
\* create_subfolder makes before creating, the call returns the Windows
\* error and makes no native create call, and the tree holds no new folder.
C25_PreflightFailure ==
    (/\ pc = "done" /\ ret.op = "create_subfolder" /\ ret.fail > 0
     /\ ret.res.tr[ret.fail][1] # "CreateObjectWithPropertiesOnly")
    => /\ ret.res.kind = "Err" /\ ret.res.err = "Windows"
       /\ Calls(ret.res.tr, "CreateObjectWithPropertiesOnly") = {}

\* a call of enumerate_devices has returned
Enumerated == pc = "done" /\ ret.op = "enumerate_devices"

\* the second GetDevices of the call was made and did not fail
FetchedIds == Cardinality(Calls(ret.res.tr, "GetDevices")) = 2 /\ ret.fail # 4

\* C26: enumerate_devices never returns a partial list.  When the second
\* GetDevices gives another count than the first promised, the call fails
\* with ChangedConditions and returns no list, and so does it when the
\* second GetDeviceFriendlyName for a device gives another length than the
\* first; when the counts agree and nothing else fails it returns exactly
\* that many devices, each a device that is plugged in, with its name; a
\* first count of 0 gives the empty list without a second GetDevices.
C26_CountedCalls ==
    Enumerated =>
        LET tr == ret.res.tr
            list == ret.res.value
            fetched == Min(ret.count, Cardinality(DOMAIN attached))
        IN  /\ ret.res.kind = "Err" => list = <<>>
            /\ ret.res.kind = "Ok" =>
                  /\ Len(list) = ret.count
                  /\ \A i \in 1..Len(list) :
                        /\ list[i].device_id \in DOMAIN attached
                        /\ list[i].friendly_name = attached[list[i].device_id]
                        /\ \A j \in 1..Len(list) : list[j].device_id = list[i].device_id => j = i
            /\ (ret.count = 0 /\ ret.fail \notin 1..3) =>
                  /\ ret.res.kind = "Ok" /\ list = <<>>
                  /\ Cardinality(Calls(tr, "GetDevices")) = 1
            /\ (FetchedIds /\ fetched # ret.count) =>
                  /\ ret.res.kind = "Err" /\ ret.res.err = "ChangedConditions"
                  /\ Len(tr) = 4
            /\ (FetchedIds /\ fetched = ret.count /\ ret.fail = 0) =>
                  IF ret.short = {} THEN ret.res.kind = "Ok"
                  ELSE ret.res.kind = "Err" /\ ret.res.err = "ChangedConditions"

\* two devices were plugged in at the first GetDevices and one of them was
\* unplugged before the second: the call failed with ChangedConditions
C26_Witness ==
    /\ Enumerated /\ FetchedIds
    /\ ret.count = 2 /\ Cardinality(DOMAIN attached) = 1
    /\ ret.res.err = "ChangedConditions" /\ ret.res.value = <<>>

====
